---- MODULE Spec2Model ----
(***************************************************************************)
(* SymptomChecker quiz engine (class SymptomChecker): the session fields,  *)
(* the quiz document load, answer selection, navigation, the auto-advance  *)
(* timers, completion (scoring, telemetry) and restart.                    *)
(***************************************************************************)
EXTENDS Integers, FiniteSets, Sequences, TLC

VARIABLES
    page,             \* the page the engine runs on: the resource behind ./quiz-data.json and whether the HTML holds the question markup
    loadState,        \* position of the async init(): "pending", "ready" or "failed"
    quizData,         \* this.quizData
    currentQuestion,  \* this.currentQuestion
    answers,          \* this.answers: question index -> answer, DOMAIN answers = Object.keys
    totalScore,       \* this.totalScore
    isQuizCompleted,  \* this.isQuizCompleted
    listeners,        \* setupEventListeners() has run: the click and keydown handlers are installed
    domQuestions,     \* indices i such that .question[data-question = i+1] is in the document
    timers,           \* pending auto-advance timeouts, by what happened since each was scheduled
    tracked,          \* the trackEvent('quiz_completed', ...) payload the last call sent, or Null
    lastCall,         \* the call that produced this state
    exported,         \* the last Result exportResults() returned, while its caller holds it, or Null
    probe             \* a getResultLevel() evaluation on its own: score, the two bounds, the level returned

vars == <<page, loadState, quizData, currentQuestion, answers, totalScore,
          isQuizCompleted, listeners, domQuestions, timers, tracked, lastCall,
          exported, probe>>

session == <<currentQuestion, answers, totalScore, isQuizCompleted>>

-----------------------------------------------------------------------------
(* Bounds *)

MaxQuestions == 2     \* documents have 0..MaxQuestions questions
MaxWeight == 2        \* option weights and scale values are 0..MaxWeight
MaxTimers == 2        \* pending auto-advance timeouts
MaxClock == 1         \* new Date() reads 0..MaxClock
MaxScore == 11        \* scores handed to getResultLevel on its own are 0..MaxScore
MaxBucket == 10       \* scoring.low.max and scoring.moderate.max handed to it are 0..MaxBucket

\* null / undefined, and a response whose ok flag is false
Null == [isNull |-> TRUE]
HttpError == [ok |-> FALSE]

Weights == 0..MaxWeight

\* quizData.scoring: the two bounds getResultLevel reads, or absent
Scorings == {Null, [low |-> 1, moderate |-> 2]}

\* a parsed quiz-data.json: questions.length, the indices of type 'scale' (the
\* first s questions, s = 0..n), the autoAdvance member (not in the document, or
\* false)
\* and scoring
Documents ==
    UNION { [n : {k}, scale : {0..(s - 1) : s \in 0..k}, autoAdvance : {"absent", "false"},
             scoring : Scorings] : k \in 0..MaxQuestions }

Resources == {HttpError} \cup Documents

\* the buttons of a question: class (.answer-btn / .scale-btn), data-value, data-weight
\* (generateQuestion writes option.value and option.weight; a choice option is
\* identified by its weight here, a scale option has its value as weight or none)
Buttons ==
    {b \in [cls : {"answer-btn", "scale-btn"}, value : Weights, weight : Weights] :
        IF b.cls = "answer-btn" THEN b.value = b.weight ELSE b.weight \in {0, b.value}}

NoAnswers == [k \in {} |-> Null]

NoTimers == [live |-> 0, superseded |-> 0, stale |-> 0]
TimerCount == timers.live + timers.superseded + timers.stale

-----------------------------------------------------------------------------
(* Pure helpers *)

RECURSIVE SumWeights(_, _)
SumWeights(ans, keys) ==
    IF keys = {} THEN 0
    ELSE LET k == CHOOSE x \in keys : TRUE
         IN ans[k].weight + SumWeights(ans, keys \ {k})

\* calculateScore() without the reset of this.totalScore at its start
calculateScoreNoReset(ans) == totalScore + SumWeights(ans, DOMAIN ans)

\* calculateScore(): sum of answer.weight over Object.values(this.answers)
calculateScore(ans) == SumWeights(ans, DOMAIN ans)

\* getResultLevel() with exclusive bounds
getResultLevelExclusive(score, scoring) ==
    IF score < scoring.low THEN "low"
    ELSE IF score < scoring.moderate THEN "moderate"
    ELSE "high"

\* getResultLevel(): the comparison chain on scoring.low.max / scoring.moderate.max
getResultLevel(score, scoring) ==
    IF score <= scoring.low THEN "low"
    ELSE IF score <= scoring.moderate THEN "moderate"
    ELSE "high"

\* canProceed(): this.answers.hasOwnProperty(this.currentQuestion)
canProceed == currentQuestion \in DOMAIN answers

\* parseInt(button.dataset.weight) || 0
choiceWeight(b) == IF b.weight # 0 THEN b.weight ELSE 0

\* parseInt(button.dataset.weight) || parseInt(value) || 0
scaleWeight(b) == IF b.weight # 0 THEN b.weight ELSE IF b.value # 0 THEN b.value ELSE 0

\* the .question elements after showQuestion(index)
showQuestion(index) ==
    IF quizData = Null \/ index >= quizData.n THEN domQuestions
    ELSE IF index \in domQuestions THEN domQuestions
    ELSE {index}

\* the buttons inside .question[data-question = q+1]
ButtonsOf(q) ==
    LET doc == IF quizData # Null THEN quizData ELSE page.resource
        cls == IF doc # HttpError /\ q \in doc.scale THEN "scale-btn" ELSE "answer-btn"
    IN {b \in Buttons : b.cls = cls}

\* every pending timeout has seen a selection or a change of question since it was scheduled
Supersede(t) == [live |-> 0, superseded |-> t.superseded + t.live, stale |-> t.stale]

\* every pending timeout was scheduled before a restart
MakeStale(t) == [live |-> 0, superseded |-> 0, stale |-> t.stale + t.superseded + t.live]

\* a Result one call later: its holder reads it after the call that follows
\* exportResults() and drops it then
Held(r) ==
    IF r = Null THEN Null
    ELSE IF r.held THEN Null
    ELSE [r EXCEPT !.held = TRUE]

\* a call without a button
NoArg == [none |-> TRUE]

Call(op, handle) ==
    [op |-> op, from |-> currentQuestion, wasCompleted |-> isQuizCompleted,
     handle |-> handle, arg |-> NoArg]

\* a navigation call and whether it ended by throwing
CallNav(op, handle, threw) ==
    [op |-> op, from |-> currentQuestion, wasCompleted |-> isQuizCompleted,
     handle |-> handle, arg |-> [threw |-> threw]]

\* a selection: the question of the button, the button, and whether the answer
\* a replaces a different one
CallSelect(op, q, b, a) ==
    [op |-> op, from |-> currentQuestion, wasCompleted |-> isQuizCompleted,
     handle |-> "none",
     arg |-> [q |-> q, b |-> b, replaced |-> q \in DOMAIN answers /\ answers[q] # a]]

\* exportResults(): what it returned ("null", "result", or "threw")
CallExport(ret) ==
    [op |-> "exportResults", from |-> currentQuestion, wasCompleted |-> isQuizCompleted,
     handle |-> "none", arg |-> [ret |-> ret]]

-----------------------------------------------------------------------------
Init ==
    /\ page \in [resource : Resources, static : BOOLEAN]
    /\ loadState = "pending"
    /\ quizData = Null
    /\ currentQuestion = 0
    /\ answers = NoAnswers
    /\ totalScore = 0
    /\ isQuizCompleted = FALSE
    /\ listeners = FALSE
    /\ domQuestions = IF ~page.static THEN {}
                      ELSE IF page.resource = HttpError THEN 0..(MaxQuestions - 1)
                      ELSE 0..(page.resource.n - 1)
    /\ timers = NoTimers
    /\ tracked = Null
    /\ exported = Null
    /\ lastCall = [op |-> "constructor", from |-> 0, wasCompleted |-> FALSE,
                   handle |-> "none", arg |-> NoArg]
    /\ probe = Null

\* setupEventListeners() called before the await of init()
setupEventListenersFirst(loaded) == listeners' = TRUE

\* init(): setupEventListeners() is behind the await, it runs only if
\* loadQuizData() did not throw
setupEventListeners(loaded) == listeners' = loaded

\* init() resumes after loadQuizData(): the fetch resolved
LoadQuizData ==
    /\ loadState = "pending"
    /\ lastCall' = Call("init", "none")
    /\ timers' = timers
    /\ tracked' = Null
    /\ exported' = Held(exported)
    /\ UNCHANGED <<probe, page, session>>
    /\ setupEventListeners(page.resource # HttpError /\ page.resource.n # 0)
    /\ IF page.resource = HttpError
       THEN /\ quizData' = quizData
            /\ loadState' = "failed"
            /\ domQuestions' = domQuestions
       ELSE /\ quizData' = page.resource
            /\ IF page.resource.n = 0
               THEN /\ loadState' = "failed"
                    /\ domQuestions' = domQuestions
               ELSE /\ loadState' = "ready"
                    /\ domQuestions' = IF 0 \in domQuestions THEN domQuestions ELSE {0}


-----------------------------------------------------------------------------
(* The methods: what each leaves in the fields it writes *)

\* completeQuiz() that computes the score into a local without storing it
completeQuizStaleScore ==
    /\ isQuizCompleted' = TRUE
    /\ totalScore' = totalScore
    /\ tracked' = IF quizData.scoring = Null THEN Null
                  ELSE [tool |-> "toolName",
                        score |-> calculateScore(answers),
                        level |-> getResultLevel(calculateScore(answers), quizData.scoring),
                        answers |-> Cardinality(DOMAIN answers)]
    /\ UNCHANGED <<currentQuestion, domQuestions>>

\* completeQuiz(): the flag, the score, then getResultLevel(), which throws on a
\* document without scoring before the event is tracked
completeQuiz ==
    /\ isQuizCompleted' = TRUE
    /\ totalScore' = calculateScore(answers)
    /\ tracked' = IF quizData.scoring = Null THEN Null
                  ELSE [tool |-> "toolName",
                        score |-> calculateScore(answers),
                        level |-> getResultLevel(calculateScore(answers), quizData.scoring),
                        answers |-> Cardinality(DOMAIN answers)]
    /\ UNCHANGED <<currentQuestion, domQuestions>>

\* nextQuestion() without the canProceed() gate
nextQuestionUngated ==
    IF quizData = Null
    THEN /\ tracked' = Null
         /\ UNCHANGED <<currentQuestion, totalScore, isQuizCompleted, domQuestions>>
    ELSE IF currentQuestion < quizData.n - 1
    THEN /\ currentQuestion' = currentQuestion + 1
         /\ domQuestions' = showQuestion(currentQuestion + 1)
         /\ tracked' = Null
         /\ UNCHANGED <<totalScore, isQuizCompleted>>
    ELSE completeQuiz

\* nextQuestion() comparing with questions.length instead of questions.length - 1
nextQuestionOffByOne ==
    IF ~canProceed \/ quizData = Null
    THEN /\ tracked' = Null
         /\ UNCHANGED <<currentQuestion, totalScore, isQuizCompleted, domQuestions>>
    ELSE IF currentQuestion < quizData.n
    THEN /\ currentQuestion' = currentQuestion + 1
         /\ domQuestions' = showQuestion(currentQuestion + 1)
         /\ tracked' = Null
         /\ UNCHANGED <<totalScore, isQuizCompleted>>
    ELSE completeQuiz

\* nextQuestion() that reopens a completed session instead of completing it again
nextQuestionReopens ==
    IF ~canProceed \/ quizData = Null
    THEN /\ tracked' = Null
         /\ UNCHANGED <<currentQuestion, totalScore, isQuizCompleted, domQuestions>>
    ELSE IF currentQuestion < quizData.n - 1
    THEN /\ currentQuestion' = currentQuestion + 1
         /\ domQuestions' = showQuestion(currentQuestion + 1)
         /\ tracked' = Null
         /\ UNCHANGED <<totalScore, isQuizCompleted>>
    ELSE IF isQuizCompleted
    THEN /\ isQuizCompleted' = FALSE
         /\ tracked' = Null
         /\ UNCHANGED <<currentQuestion, totalScore, domQuestions>>
    ELSE completeQuiz

\* nextQuestion(); this.quizData.questions throws while quizData is null
nextQuestion ==
    IF ~canProceed \/ quizData = Null
    THEN /\ tracked' = Null
         /\ UNCHANGED <<currentQuestion, totalScore, isQuizCompleted, domQuestions>>
    ELSE IF currentQuestion < quizData.n - 1
    THEN /\ currentQuestion' = currentQuestion + 1
         /\ domQuestions' = showQuestion(currentQuestion + 1)
         /\ tracked' = Null
         /\ UNCHANGED <<totalScore, isQuizCompleted>>
    ELSE completeQuiz

\* nextQuestion() ends by throwing: past canProceed(), this.quizData.questions
\* on a null quizData, or completeQuiz() -> getResultLevel() reading
\* this.quizData.scoring.low on a document without scoring
nextQuestionThrows ==
    /\ canProceed
    /\ \/ quizData = Null
       \/ (currentQuestion >= quizData.n - 1 /\ quizData.scoring = Null)

\* previousQuestion() without the currentQuestion > 0 test
previousQuestionUnguarded ==
    /\ currentQuestion' = currentQuestion - 1
    /\ domQuestions' = showQuestion(currentQuestion - 1)

\* previousQuestion()
previousQuestion ==
    IF currentQuestion > 0
    THEN /\ currentQuestion' = currentQuestion - 1
         /\ domQuestions' = showQuestion(currentQuestion - 1)
    ELSE UNCHANGED <<currentQuestion, domQuestions>>

\* restartQuiz() without the totalScore reset
restartQuizKeepsScore ==
    /\ currentQuestion' = 0
    /\ answers' = NoAnswers
    /\ totalScore' = totalScore
    /\ isQuizCompleted' = FALSE
    /\ domQuestions' = showQuestion(0)

\* restartQuiz()
restartQuiz ==
    /\ currentQuestion' = 0
    /\ answers' = NoAnswers
    /\ totalScore' = 0
    /\ isQuizCompleted' = FALSE
    /\ domQuestions' = showQuestion(0)

\* a store that keeps the answer an index already has
recordKeepsFirst(q, a) ==
    [k \in DOMAIN answers \cup {q} |-> IF k \in DOMAIN answers THEN answers[k] ELSE a]

\* this.answers[questionIndex] = {...}
record(q, a) == [k \in DOMAIN answers \cup {q} |-> IF k = q THEN a ELSE answers[k]]

\* selectAnswer(button), button inside .question[data-question = q+1]
selectAnswer(q, b) ==
    answers' = record(q, [value |-> b.value, weight |-> choiceWeight(b)])

\* selectScaleAnswer(button)
selectScaleAnswer(q, b) ==
    answers' = record(q, [value |-> b.value, weight |-> scaleWeight(b)])

\* a selectAnswer that schedules its timeout whatever the autoAdvance member is
schedulesAutoAdvanceAlways == quizData # Null

\* selectAnswer's setTimeout: quizData.autoAdvance !== false (a null quizData throws first)
schedulesAutoAdvance == quizData # Null /\ quizData.autoAdvance # "false"

\* the call changes the question or completes
WouldMove == canProceed /\ quizData # Null

-----------------------------------------------------------------------------
(* The calls *)

SelectAnswer(q, b) ==
    /\ b.cls = "answer-btn"
    /\ schedulesAutoAdvance => TimerCount < MaxTimers
    /\ selectAnswer(q, b)
    /\ timers' = IF schedulesAutoAdvance
                 THEN [Supersede(timers) EXCEPT !.live = 1]
                 ELSE Supersede(timers)
    /\ lastCall' = CallSelect("selectAnswer", q, b, answers'[q])
    /\ tracked' = Null
    /\ exported' = Held(exported)
    /\ UNCHANGED <<probe, page, listeners, loadState, quizData, currentQuestion, totalScore,
                   isQuizCompleted, domQuestions>>

SelectScaleAnswer(q, b) ==
    /\ b.cls = "scale-btn"
    /\ selectScaleAnswer(q, b)
    /\ timers' = Supersede(timers)
    /\ lastCall' = CallSelect("selectScaleAnswer", q, b, answers'[q])
    /\ tracked' = Null
    /\ exported' = Held(exported)
    /\ UNCHANGED <<probe, page, listeners, loadState, quizData, currentQuestion, totalScore,
                   isQuizCompleted, domQuestions>>

NextQuestion ==
    /\ nextQuestion
    /\ timers' = IF WouldMove THEN Supersede(timers) ELSE timers
    /\ lastCall' = CallNav("nextQuestion", "none", nextQuestionThrows)
    /\ exported' = Held(exported)
    /\ UNCHANGED <<probe, page, listeners, loadState, quizData, answers>>

PreviousQuestion ==
    /\ previousQuestion
    /\ timers' = IF currentQuestion > 0 THEN Supersede(timers) ELSE timers
    /\ lastCall' = CallNav("previousQuestion", "none", FALSE)
    /\ tracked' = Null
    /\ exported' = Held(exported)
    /\ UNCHANGED <<probe, page, listeners, loadState, quizData, answers, totalScore, isQuizCompleted>>

\* restartQuiz(); this.answers = {} is a new object: the engine no longer
\* shares anything with a Result returned before
RestartQuiz ==
    /\ restartQuiz
    /\ timers' = MakeStale(timers)
    /\ lastCall' = CallNav("restartQuiz", "none", FALSE)
    /\ tracked' = Null
    /\ exported' = Null
    /\ UNCHANGED <<probe, page, listeners, loadState, quizData>>

\* calculateScore() called on its own: it stores the sum in this.totalScore
CalculateScore ==
    /\ totalScore' = calculateScore(answers)
    /\ lastCall' = Call("calculateScore", "none")
    /\ tracked' = Null
    /\ exported' = Held(exported)
    /\ UNCHANGED <<probe, page, listeners, loadState, quizData, currentQuestion, answers,
                   isQuizCompleted, domQuestions, timers>>

\* the answers a Result returned since the last restart shows: its answers
\* field is this.answers itself (as getAnswerSummary() returns it)
ResultAnswers(r) == answers

\* quizData.recommendations[level]: the list of the level
recommendations(level) == <<level>>

\* exportResults() without the isQuizCompleted test
exportResultsUnguarded(now) ==
    IF quizData = Null \/ quizData.scoring = Null
    THEN /\ totalScore' = calculateScore(answers)
         /\ exported' = Held(exported)
         /\ lastCall' = CallExport("threw")
    ELSE /\ totalScore' = calculateScore(answers)
         /\ exported' =
               [tool |-> "toolName",
                score |-> totalScore,
                level |-> getResultLevel(calculateScore(answers), quizData.scoring),
                atExport |-> answers,
                held |-> FALSE,
                completedAt |-> now,
                recommendations |->
                    recommendations(getResultLevel(calculateScore(answers), quizData.scoring))]
         /\ lastCall' = CallExport("result")

\* exportResults(): null unless completed; otherwise the object literal, whose
\* score reads this.totalScore before getResultLevel() recomputes it, whose
\* answers is this.answers itself and whose completedAt is new Date(); on a
\* document without scoring getResultLevel() throws after calculateScore()
exportResults(now) ==
    IF ~isQuizCompleted
    THEN /\ totalScore' = totalScore
         /\ exported' = Held(exported)
         /\ lastCall' = CallExport("null")
    ELSE IF quizData.scoring = Null
    THEN /\ totalScore' = calculateScore(answers)
         /\ exported' = Held(exported)
         /\ lastCall' = CallExport("threw")
    ELSE /\ totalScore' = calculateScore(answers)
         /\ exported' =
               [tool |-> "toolName",
                score |-> totalScore,
                level |-> getResultLevel(calculateScore(answers), quizData.scoring),
                atExport |-> answers,
                held |-> FALSE,
                completedAt |-> now,
                recommendations |->
                    recommendations(getResultLevel(calculateScore(answers), quizData.scoring))]
         /\ lastCall' = CallExport("result")

\* new Date() does not run backwards between two exports
ExportResults(now) ==
    /\ exported # Null => now >= exported.completedAt
    /\ exportResults(now)
    /\ tracked' = Null
    /\ UNCHANGED <<probe, page, listeners, loadState, quizData, currentQuestion, answers,
                   isQuizCompleted, domQuestions, timers>>

\* getCurrentProgress(): totalQuestions and answeredQuestions
totalQuestions == IF quizData = Null THEN 0 ELSE quizData.n
answeredQuestions == Cardinality(DOMAIN answers)

\* the timeouts scheduled before those of class h (the delays are equal, so
\* the callbacks run in the order they were scheduled)
Older(h) ==
    IF h = "live" THEN timers.superseded + timers.stale
    ELSE IF h = "superseded" THEN timers.stale
    ELSE 0

\* the setTimeout callback of selectAnswer: if (this.canProceed()) this.nextQuestion()
AutoAdvance(h) ==
    /\ timers[h] > 0
    /\ Older(h) = 0
    /\ nextQuestion
    /\ timers' = LET rest == [timers EXCEPT ![h] = @ - 1]
                 IN IF WouldMove THEN Supersede(rest) ELSE rest
    /\ lastCall' = CallNav("autoAdvance", h, nextQuestionThrows)
    /\ exported' = Held(exported)
    /\ UNCHANGED <<probe, page, listeners, loadState, quizData, answers>>

Next ==
    \/ LoadQuizData
    \/ \E q \in domQuestions : \E b \in ButtonsOf(q) : SelectAnswer(q, b)
    \/ \E q \in domQuestions : \E b \in ButtonsOf(q) : SelectScaleAnswer(q, b)
    \/ NextQuestion
    \/ PreviousQuestion
    \/ RestartQuiz
    \/ \E h \in {"live", "superseded", "stale"} : AutoAdvance(h)

Spec == Init /\ [][Next]_vars

\* the same with direct calls of calculateScore() and exportResults()
InitApi ==
    /\ Init
    /\ page.resource # HttpError => page.resource.autoAdvance = "false"

NextApi ==
    \/ LoadQuizData
    \/ \E q \in domQuestions : \E b \in ButtonsOf(q) : SelectAnswer(q, b)
    \/ \E q \in domQuestions : \E b \in ButtonsOf(q) : SelectScaleAnswer(q, b)
    \/ NextQuestion
    \/ PreviousQuestion
    \/ RestartQuiz
    \/ \E now \in 0..MaxClock : ExportResults(now)

SpecApi == InitApi /\ [][NextApi]_vars

NextScore ==
    \/ LoadQuizData
    \/ \E q \in domQuestions : \E b \in ButtonsOf(q) : SelectAnswer(q, b)
    \/ \E q \in domQuestions : \E b \in ButtonsOf(q) : SelectScaleAnswer(q, b)
    \/ NextQuestion
    \/ PreviousQuestion
    \/ RestartQuiz
    \/ CalculateScore

SpecScore == InitApi /\ [][NextScore]_vars

-----------------------------------------------------------------------------
(* getResultLevel() on its own: every score against every pair of bounds *)

InitClassify ==
    /\ page = [resource |-> HttpError, static |-> FALSE]
    /\ loadState = "pending"
    /\ quizData = Null
    /\ currentQuestion = 0
    /\ answers = NoAnswers
    /\ totalScore = 0
    /\ isQuizCompleted = FALSE
    /\ listeners = FALSE
    /\ domQuestions = {}
    /\ timers = NoTimers
    /\ tracked = Null
    /\ exported = Null
    /\ lastCall = [op |-> "constructor", from |-> 0, wasCompleted |-> FALSE,
                   handle |-> "none", arg |-> NoArg]
    /\ probe \in [score : 0..MaxScore, low : 0..MaxBucket, moderate : 0..MaxBucket,
                  level : {"none"}]

Classify ==
    /\ probe.level = "none"
    /\ probe' = [probe EXCEPT !.level =
                    getResultLevel(probe.score, [low |-> probe.low, moderate |-> probe.moderate])]
    /\ UNCHANGED <<page, loadState, quizData, session, listeners, domQuestions, timers,
                   tracked, lastCall, exported>>

NextClassify == Classify

SpecClassify == InitClassify /\ [][NextClassify]_vars

-----------------------------------------------------------------------------
TypeOK ==
    /\ currentQuestion \in 0..MaxQuestions
    /\ DOMAIN answers \subseteq 0..(MaxQuestions - 1)
    /\ isQuizCompleted \in BOOLEAN
    /\ TimerCount <= MaxTimers

-----------------------------------------------------------------------------
(* Helpers of the properties *)

NextCalls == {"nextQuestion", "autoAdvance"}
SelectCalls == {"selectAnswer", "selectScaleAnswer"}

RecordedWeight(k) == IF k \in DOMAIN answers THEN answers[k].weight ELSE 0

RECURSIVE WeightsUpTo(_)
WeightsUpTo(k) == IF k < 0 THEN 0 ELSE RecordedWeight(k) + WeightsUpTo(k - 1)

\* the sum of the weights recorded, taken index by index
RecordedWeightSum == WeightsUpTo(MaxQuestions)

\* the buckets with a bound, by ascending bound
AscendingBuckets(low, moderate) ==
    IF low <= moderate
    THEN <<[level |-> "low", max |-> low], [level |-> "moderate", max |-> moderate]>>
    ELSE <<[level |-> "moderate", max |-> moderate], [level |-> "low", max |-> low]>>

\* the first bucket by ascending bound whose bound is >= score, else the top tier
FirstBucket(score, low, moderate) ==
    LET bs == AscendingBuckets(low, moderate)
        hit == {i \in 1..Len(bs) : bs[i].max >= score}
    IN IF hit = {} THEN "high"
       ELSE bs[CHOOSE i \in hit : \A j \in hit : i <= j].level

-----------------------------------------------------------------------------
(* C1: after restartQuiz(), from any state, currentQuestion = 0, the answer
   store is empty, totalScore = 0 and the quiz is not completed. *)
C1_RestartResetsAll ==
    lastCall.op = "restartQuiz" =>
        /\ currentQuestion = 0
        /\ DOMAIN answers = {}
        /\ totalScore = 0
        /\ ~isQuizCompleted

\* a restart of a completed session that stood at a later question with a score
C1_Witness ==
    /\ lastCall.op = "restartQuiz"
    /\ lastCall.wasCompleted
    /\ lastCall.from > 0
    /\ currentQuestion = 0 /\ DOMAIN answers = {} /\ totalScore = 0 /\ ~isQuizCompleted

(* C2: an auto-advance callback scheduled before a restart never changes
   currentQuestion or the completion flag of the session after the restart. *)
C2_StaleTimerInert ==
    (lastCall.op = "autoAdvance" /\ lastCall.handle = "stale") =>
        /\ currentQuestion = lastCall.from
        /\ isQuizCompleted = lastCall.wasCompleted

(* C3: an auto-advance callback that fires after a manual navigation or after
   another selection performs no transition. *)
C3_SupersededTimerInert ==
    (lastCall.op = "autoAdvance" /\ lastCall.handle = "superseded") =>
        /\ currentQuestion = lastCall.from
        /\ isQuizCompleted = lastCall.wasCompleted

(* C4: once the quiz is completed, a further nextQuestion() (called directly or
   by a pending auto-advance callback) does not run the completion again: it
   sends no 'quiz_completed' event. *)
C4_CompletionOnce ==
    (lastCall.op \in NextCalls /\ lastCall.wasCompleted) => tracked = Null

(* C5: on a loaded quiz a selection changes the answer store only at the
   current question and only while the quiz is not completed; any other
   selection leaves the answer store unchanged. *)
C5_SelectOnlyCurrent ==
    [][(loadState = "ready" /\ lastCall'.op \in SelectCalls) =>
          \A k \in DOMAIN answers' :
              (k \notin DOMAIN answers \/ answers'[k] # answers[k]) =>
                  (k = currentQuestion /\ ~isQuizCompleted)]_vars

(* C6: previousQuestion() while the quiz is completed leaves currentQuestion
   unchanged. *)
C6_PreviousNoopWhenCompleted ==
    (lastCall.op = "previousQuestion" /\ lastCall.wasCompleted) =>
        currentQuestion = lastCall.from

(* C7: nextQuestion() at the last question, with an answer recorded for it and
   the quiz not yet completed, completes the quiz, and the stored score is the
   sum of the weights of all recorded answers. *)
C7_CompleteScoresSum ==
    (/\ lastCall.op \in NextCalls
     /\ ~lastCall.wasCompleted
     /\ loadState = "ready"
     /\ lastCall.from = quizData.n - 1
     /\ lastCall.from \in DOMAIN answers) =>
        /\ isQuizCompleted
        /\ totalScore = RecordedWeightSum

\* two questions answered with weights 1 and 2, completed with score 3
C7_Witness ==
    /\ lastCall.op = "nextQuestion"
    /\ ~lastCall.wasCompleted
    /\ loadState = "ready" /\ quizData.n = 2 /\ lastCall.from = 1
    /\ DOMAIN answers = {0, 1}
    /\ answers[0].weight = 1 /\ answers[1].weight = 2
    /\ isQuizCompleted /\ totalScore = 3

(* C8: nextQuestion() without an answer for the current question changes
   neither currentQuestion, the answers nor the completion flag; with one, at
   a question i before the last, it moves to i+1 and changes neither the
   answers nor the completion flag. *)
C8_NextGated ==
    [][lastCall'.op = "nextQuestion" =>
          IF currentQuestion \notin DOMAIN answers
          THEN /\ currentQuestion' = currentQuestion
               /\ answers' = answers
               /\ isQuizCompleted' = isQuizCompleted
          ELSE (loadState = "ready" /\ currentQuestion < quizData.n - 1) =>
               /\ currentQuestion' = currentQuestion + 1
               /\ answers' = answers
               /\ isQuizCompleted' = isQuizCompleted]_vars

\* nextQuestion() called at an unanswered question while an earlier one is answered
C8_Witness ==
    /\ lastCall.op = "nextQuestion"
    /\ loadState = "ready"
    /\ lastCall.from = currentQuestion
    /\ currentQuestion \notin DOMAIN answers
    /\ DOMAIN answers # {}

(* C9: canProceed() is true exactly when the quiz is not completed and the
   current question has a recorded answer. *)
C9_CanProceedIff ==
    canProceed <=> (~isQuizCompleted /\ currentQuestion \in DOMAIN answers)

(* C10: getResultLevel returns 'low' when score <= low.max, otherwise
   'moderate' when score <= moderate.max, otherwise 'high'; for
   low.max <= moderate.max this is the first bucket by ascending bound whose
   bound is >= score, else the top tier. *)
C10_ClassifyBuckets ==
    probe.level # "none" =>
        /\ (probe.level = "low") <=> (probe.score <= probe.low)
        /\ (probe.level = "moderate") <=>
              (probe.score > probe.low /\ probe.score <= probe.moderate)
        /\ (probe.level = "high") <=>
              (probe.score > probe.low /\ probe.score > probe.moderate)
        /\ (probe.low <= probe.moderate) =>
              probe.level = FirstBucket(probe.score, probe.low, probe.moderate)
        /\ (probe.low = 5 /\ probe.moderate = 10 /\ probe.score = 6) =>
              probe.level = "moderate"
        /\ (probe.low = 5 /\ probe.moderate = 10 /\ probe.score = 11) =>
              probe.level = "high"

\* a score equal to the low bound classified into the low bucket
C10_Witness ==
    probe = [score |-> 5, low |-> 5, moderate |-> 10, level |-> "low"]

(* C11: calculateScore() stores and returns the sum of the weights of exactly
   the answers recorded, for a partial and for the empty store too, and
   changes neither the answers, currentQuestion nor the completion flag. *)
C11_ScoreIsWeightSum ==
    [][lastCall'.op = "calculateScore" =>
          /\ totalScore' = RecordedWeightSum
          /\ answers' = answers
          /\ currentQuestion' = currentQuestion
          /\ isQuizCompleted' = isQuizCompleted]_vars

\* the score of a partial store: question 1 of 2 answered with weight 2, quiz not completed
C11_Witness ==
    /\ lastCall.op = "calculateScore"
    /\ loadState = "ready" /\ quizData.n = 2
    /\ DOMAIN answers = {0} /\ answers[0].weight = 2
    /\ ~isQuizCompleted
    /\ totalScore = 2

(* C12: a selection for index q leaves exactly the answer of its button at q
   (whatever q held before), adds no other index, keeps the answers at every
   other index and changes neither currentQuestion nor the completion flag. *)
C12_LastWriteWins ==
    [][lastCall'.op \in SelectCalls =>
          LET q == lastCall'.arg.q
              b == lastCall'.arg.b
          IN /\ DOMAIN answers' = DOMAIN answers \cup {q}
             /\ answers'[q].value = b.value
             /\ answers'[q].weight =
                   (IF b.cls = "scale-btn" /\ b.weight = 0 THEN b.value ELSE b.weight)
             /\ \A k \in DOMAIN answers \ {q} : answers'[k] = answers[k]
             /\ currentQuestion' = currentQuestion
             /\ isQuizCompleted' = isQuizCompleted]_vars

\* a selection that replaced a different answer while another index was answered
C12_Witness ==
    /\ lastCall.op \in SelectCalls
    /\ lastCall.arg.replaced
    /\ Cardinality(DOMAIN answers) = 2

(* C13: every key of the answer store is a question index below the number
   of questions getCurrentProgress() reports, so answeredQuestions never
   exceeds totalQuestions. *)
C13_KeysValid ==
    /\ DOMAIN answers \subseteq 0..(totalQuestions - 1)
    /\ answeredQuestions <= totalQuestions

(* C14: exportResults() called again right after it returned a Result, with
   no other call in between, returns a Result whose tool, score, level,
   answers, completedAt and recommendations equal those of the first. *)
C14_ExportTwiceEqual ==
    [][(/\ lastCall.op = "exportResults" /\ lastCall.arg.ret = "result"
        /\ lastCall'.op = "exportResults")
          => /\ lastCall'.arg.ret = "result"
             /\ exported'.tool = exported.tool
             /\ exported'.score = exported.score
             /\ exported'.level = exported.level
             /\ exported'.atExport = exported.atExport
             /\ exported'.completedAt = exported.completedAt
             /\ exported'.recommendations = exported.recommendations]_vars

(* C15: the answers a returned Result shows stay those recorded when
   exportResults() returned it, whatever is called on the engine afterwards. *)
C15_ResultAnswersFrozen ==
    exported # Null => ResultAnswers(exported) = exported.atExport

(* C16: exportResults() on a session that is not completed returns null and
   leaves currentQuestion, the answers, totalScore and the completion flag
   as they were. *)
C16_ExportNullUnlessCompleted ==
    [][(lastCall'.op = "exportResults" /\ ~isQuizCompleted)
          => /\ lastCall'.arg.ret = "null"
             /\ session' = session]_vars

\* null returned on a loaded quiz with every question answered but not completed
C16_Witness ==
    /\ lastCall.op = "exportResults" /\ lastCall.arg.ret = "null"
    /\ loadState = "ready" /\ quizData.n = 2
    /\ DOMAIN answers = {0, 1}
    /\ ~isQuizCompleted

(* C17: previousQuestion() at question 0 leaves currentQuestion, the answers,
   totalScore and the completion flag unchanged; at question i > 0 it sets
   currentQuestion to i - 1 and leaves the answers unchanged. *)
C17_PreviousDecrements ==
    [][lastCall'.op = "previousQuestion" =>
          IF currentQuestion = 0
          THEN session' = session
          ELSE /\ currentQuestion' = currentQuestion - 1
               /\ answers' = answers]_vars

\* back from question 2 to question 1 of a loaded quiz, the answer of question 2 kept
C17_Witness ==
    /\ lastCall.op = "previousQuestion" /\ lastCall.from = 1
    /\ loadState = "ready"
    /\ currentQuestion = 0
    /\ 1 \in DOMAIN answers

(* C18: the constructor leaves question 0, no answer and the completion flag
   off; init() changes none of the three when the load ends; and the click
   and keydown handlers exist only once the load has succeeded, so no event
   reaches the engine before. *)
C18_InitialUntilLoaded ==
    [][/\ lastCall.op = "constructor"
            => (currentQuestion = 0 /\ answers = NoAnswers /\ ~isQuizCompleted)
       /\ lastCall'.op = "init"
            => /\ currentQuestion' = currentQuestion
               /\ answers' = answers
               /\ isQuizCompleted' = isQuizCompleted
       /\ listeners' => loadState' = "ready"]_vars

\* a load of a quiz of two questions just succeeded on an engine nothing had called
C18_Witness ==
    /\ lastCall.op = "init" /\ loadState = "ready" /\ listeners
    /\ quizData.n = 2
    /\ currentQuestion = 0 /\ answers = NoAnswers /\ ~isQuizCompleted

(* C19: a load that fails (non-success status, or a document with no
   question) leaves no quiz document in the engine, shows no question and
   installs no handler. *)
C19_FailedLoadKeepsNothing ==
    [][(lastCall'.op = "init" /\ loadState' = "failed")
          => /\ quizData' = Null
             /\ domQuestions' = domQuestions
             /\ ~listeners']_vars

(* C20: a document without the scoring rules never loads: the engine is
   ready only with a document that has them. *)
C20_ReadyHasScoring ==
    loadState = "ready" => quizData.scoring # Null

(* C21: nextQuestion(), previousQuestion() and restartQuiz() never end by
   throwing, in any state of the engine (load pending, failed or done);
   nextQuestion() without an answer for the current question and
   previousQuestion() at question 0 leave the session as it was. *)
C21_NavigationNeverThrows ==
    [][lastCall'.op \in {"nextQuestion", "previousQuestion", "restartQuiz"} =>
          /\ ~lastCall'.arg.threw
          /\ (lastCall'.op = "nextQuestion" /\ ~canProceed) => session' = session
          /\ (lastCall'.op = "previousQuestion" /\ currentQuestion = 0)
                => session' = session]_vars

(* C22: every nextQuestion() that runs completeQuiz() sends one
   'quiz_completed' event carrying the tool, the sum of the recorded weights,
   the level of that sum and the number of answered questions; and init()
   sends an event too. *)
C22_TelemetryAtCompletionAndInit ==
    [][/\ (lastCall'.op \in NextCalls /\ canProceed /\ quizData # Null
            /\ currentQuestion >= quizData.n - 1)
          => /\ tracked' # Null
             /\ tracked'.tool = "toolName"
             /\ tracked'.score = RecordedWeightSum
             /\ tracked'.level = getResultLevel(RecordedWeightSum, quizData.scoring)
             /\ tracked'.answers = Cardinality(DOMAIN answers)
       /\ lastCall'.op = "init" => tracked' # Null]_vars

(* C23: on a loaded quiz with auto-advance on, every selection for the
   current question, by an .answer-btn or by a .scale-btn alike, leaves a
   delayed nextQuestion() pending: without it nothing moves the session off
   the question unless the user acts again. *)
C23_SelectionSchedulesAdvance ==
    (/\ lastCall.op \in SelectCalls
     /\ loadState = "ready" /\ quizData.autoAdvance # "false"
     /\ lastCall.arg.q = lastCall.from /\ ~lastCall.wasCompleted)
        => timers.live > 0

(* C24: with autoAdvance false in the document no timeout is ever pending,
   and currentQuestion and the completion flag change only in a call of
   nextQuestion(), previousQuestion() or restartQuiz(); with no autoAdvance
   member in the document a selectAnswer() schedules its timeout. *)
C24_AutoAdvanceFlag ==
    [][/\ (quizData' # Null /\ quizData'.autoAdvance = "false")
          => /\ timers' = NoTimers
             /\ (currentQuestion' # currentQuestion \/ isQuizCompleted' # isQuizCompleted)
                   => lastCall'.op \in {"nextQuestion", "previousQuestion", "restartQuiz"}
       /\ (lastCall'.op = "selectAnswer" /\ quizData # Null
            /\ quizData.autoAdvance = "absent")
          => timers'.live > 0]_vars

\* the current and last question of a loaded quiz with autoAdvance false just
\* answered, nothing pending
C24_Witness ==
    /\ lastCall.op = "selectAnswer"
    /\ loadState = "ready" /\ quizData.autoAdvance = "false"
    /\ lastCall.arg.q = currentQuestion /\ currentQuestion = quizData.n - 1
    /\ ~isQuizCompleted
    /\ timers = NoTimers

(* C25: every question before the current one has a recorded answer, and on
   a completed session every question of the document has one. *)
C25_AnsweredBeforeCurrent ==
    /\ \A k \in 0..(currentQuestion - 1) : k \in DOMAIN answers
    /\ isQuizCompleted => \A k \in 0..(totalQuestions - 1) : k \in DOMAIN answers

\* a quiz of two questions completed by an auto-advance callback that was
\* scheduled before another selection or a change of question
C25_Witness ==
    /\ isQuizCompleted /\ quizData.n = 2
    /\ lastCall.op = "autoAdvance" /\ lastCall.handle = "superseded"
    /\ currentQuestion = 1
    /\ DOMAIN answers = {0, 1}

(* C26: once the load has succeeded, currentQuestion is an index of the
   document's questions in every state, and the call that completes the
   quiz leaves it at the last index it was called at. *)
C26_CurrentInRange ==
    loadState = "ready" =>
        /\ currentQuestion \in 0..(quizData.n - 1)
        /\ (lastCall.op \in NextCalls /\ isQuizCompleted /\ ~lastCall.wasCompleted)
              => (currentQuestion = lastCall.from /\ currentQuestion = quizData.n - 1)

\* a quiz of two questions just completed by nextQuestion() at its second question
C26_Witness ==
    /\ loadState = "ready" /\ quizData.n = 2
    /\ lastCall.op = "nextQuestion" /\ ~lastCall.wasCompleted
    /\ isQuizCompleted
    /\ currentQuestion = 1

(* C27: in every Result exportResults() returns, the level is the level of
   its score, the score is the sum of the weights of its answers and the
   recommendations are those of its level, also when an answer was selected
   after the completion. *)
C27_ResultConsistent ==
    (lastCall.op = "exportResults" /\ lastCall.arg.ret = "result") =>
        /\ exported.level = getResultLevel(exported.score, quizData.scoring)
        /\ exported.score = SumWeights(exported.atExport, DOMAIN exported.atExport)
        /\ exported.recommendations = recommendations(exported.level)

(* C28: the completion flag rises only in a nextQuestion() (called directly
   or by a timeout callback) at the last question with an answer recorded
   for it, and once set it falls only in restartQuiz(). *)
C28_CompletionMonotone ==
    [][/\ (~isQuizCompleted /\ isQuizCompleted')
          => /\ lastCall'.op \in NextCalls
             /\ canProceed
             /\ quizData # Null /\ currentQuestion = quizData.n - 1
       /\ (isQuizCompleted /\ ~isQuizCompleted')
          => lastCall'.op = "restartQuiz"]_vars

\* a timeout callback scheduled before the completion has called nextQuestion()
\* on the completed session, which is still completed
C28_Witness ==
    /\ lastCall.op = "autoAdvance" /\ lastCall.wasCompleted
    /\ isQuizCompleted
    /\ quizData.n = 2

====
